---- MODULE Spec2Model ----
(***************************************************************************)
(* koishi-plugin-lex-ninjutsu: the 'ninjutsu' table, the catalog refresh   *)
(* and clear commands, the pinyin backfill (NinjutsuPinyin), the tiered    *)
(* lookup tryGetNinjutsu and the tiered search searchNinjutsu.             *)
(*                                                                         *)
(* A string is a sequence of one-character strings; '' is << >>.           *)
(*                                                                         *)
(* Spec, SpecLive: the writers of the table.  Every statement the database *)
(* executes is one step, so the select and the upsert of a backfill run    *)
(* interleave with the refresh and clear commands and with other runs.     *)
(* The code between two awaits runs with the statement it leads to.        *)
(*                                                                         *)
(* SpecResolve, SpecSearch: a lookup or a search over a catalog that does  *)
(* not change while it runs, from every catalog a refresh and a backfill   *)
(* can leave in the database.                                              *)
(***************************************************************************)
EXTENDS Integers, Sequences, FiniteSets, TLC

\* ------------------------------------------------------------------ bounds
\* ids the remote source hands out
MaxId == 2
\* backfill runs (updateDatabasePinyin calls) in flight at once
MaxBackfills == 1
\* largest -l limit / cfg.searchLimit tried
MaxLimit == 2

Ids == 1..MaxId
Procs == 1..MaxBackfills
Limits == 1..MaxLimit

\* ------------------------------------------------------------- input sets
\* \p{P}|\p{S}|\p{Z} among the characters used
Punctuation == {"-", ".", "("}
\* what the remote source serves for an id: (name, description)
StoreJutsus == { <<(<<"a">>), "d1">>, <<(<<"-">>), "d2">> }
\* the same, for the catalogs looked up and searched
ReaderJutsus == { <<(<<"a">>), "d1">>, <<(<<"A">>), "d2">>, <<(<<"a", "-">>), "d1">> }
\* what a user types after ninjutsu.info / ninjutsu.search
Queries == { <<"a">>, <<"A">>, <<"a", "-">>, <<"-">>, <<".">>, <<"(">>, <<"b">> }

\* LexNinjutsu.MatchLevel
Strict == 0
Normal == 1
Homophone == 2
MatchLevels == { Strict, Normal, Homophone }

\* undefined
None == [id |-> 0]

\* ----------------------------------------------------------- pure helpers
removePunctuation(s) == SelectSeq(s, LAMBDA c : c \notin Punctuation)

\* ctx.pinyin.pinyin(s, {style: 0}).join('').toLowerCase(): the characters
\* used are not hanzi, the romanization leaves them and toLowerCase folds
\* them, so "A" and "a" are two texts with one key.
getPinyin(s) == [i \in 1..Len(s) |-> IF s[i] = "A" THEN "a" ELSE s[i]]

toNinjutsuInfo(src) ==
    [id |-> src.id, name |-> src.name, description |-> src.description,
     nameNoPunctuation |-> removePunctuation(src.name)]

\* model.create(): the defaults of the 'ninjutsu' fields
DefaultRow ==
    [id |-> 0, name |-> << >>, description |-> "",
     nameNoPunctuation |-> << >>, namePinyin |-> << >>]

\* the fields an upsert row gives are assigned, the others are kept (a new
\* row starts from the defaults)
Assign(row, update) ==
    [f \in DOMAIN row |-> IF f \in DOMAIN update THEN update[f] ELSE row[f]]

IndexOfId(tab, id) ==
    IF \E i \in 1..Len(tab) : tab[i].id = id
    THEN CHOOSE i \in 1..Len(tab) : tab[i].id = id
    ELSE 0

RowIds(tab) == { tab[i].id : i \in 1..Len(tab) }
RowOf(tab, id) == tab[IndexOfId(tab, id)]

UpsertOne(tab, update) ==
    LET i == IndexOfId(tab, update.id)
    IN  IF i = 0 THEN Append(tab, Assign(DefaultRow, update))
        ELSE [tab EXCEPT ![i] = Assign(tab[i], update)]

\* database.upsert('ninjutsu', data): by primary key id, row by row
RECURSIVE upsert(_, _)
upsert(tab, data) ==
    IF data = << >> THEN tab
    ELSE upsert(UpsertOne(tab, Head(data)), Tail(data))

\* database.remove('ninjutsu', {id: {$gt: 0}})
remove(tab) == SelectSeq(tab, LAMBDA r : ~(r.id > 0))

\* select('ninjutsu').where(row => $.eq(row[field], value)).execute()
selectEq(tab, field, value) == SelectSeq(tab, LAMBDA r : r[field] = value)

\* ------------------------------------------------------------------ state
VARIABLES
    pinyin,     \* ctx.pinyin is there (koishi-plugin-pinyin loaded)
    started,    \* the 'ready' event has fired
    table,      \* the rows of 'ninjutsu', in the store's order
    bf,         \* the updateDatabasePinyin calls in flight
    matchLevel, \* cfg.matchLevel
    info,       \* the last ninjutsu.info lookup and what it returned
    found       \* the last ninjutsu.search and what it built

vars == <<pinyin, started, table, bf, matchLevel, info, found>>
reader == <<matchLevel, info, found>>

NoLookup == [pc |-> "idle"]

Idle == [pc |-> "idle", data |-> << >>]

Source(id, j) == [id |-> id, name |-> j[1], description |-> j[2]]

\* a catalog kept from an earlier run of the bot, never backfilled
InitTables ==
    { << >>, <<Assign(DefaultRow, toNinjutsuInfo(Source(1, <<(<<"a">>), "d1">>)))>> }

Init ==
    /\ pinyin \in BOOLEAN
    /\ started = FALSE
    /\ table \in InitTables
    /\ bf = [p \in Procs |-> Idle]
    /\ matchLevel = Normal
    /\ info = NoLookup
    /\ found = NoLookup

HasIdle == \E p \in Procs : bf[p].pc = "idle"
FirstIdle ==
    CHOOSE p \in Procs : bf[p].pc = "idle" /\ \A q \in Procs : bf[q].pc = "idle" => p <= q

\* faulty variant: nobody listens to 'ready' and 'ninjutsu-database-update'
TriggerUnheard(b) == b

\* ctx.emit / 'ready': NinjutsuPinyin listens only when pinyin is injected;
\* the listener call issues its select and returns
Trigger(b) ==
    IF pinyin THEN [b EXCEPT ![FirstIdle] = [pc |-> "select", data |-> << >>]]
    ELSE b

Ready ==
    /\ ~started
    /\ started' = TRUE
    /\ bf' = Trigger(bf)
    /\ UNCHANGED <<reader, pinyin, table>>

\* the batches the remote source can answer with
Sources(J) == { Source(id, j) : id \in Ids, j \in J }
Batches(J) ==
    { <<s>> : s \in Sources(J) } \cup
    { <<s, t>> : s \in Sources(J), t \in Sources(J) }

DistinctIds(batch) == \A i, j \in 1..Len(batch) : batch[i].id = batch[j].id => i = j

MapInfo(batch) == [i \in 1..Len(batch) |-> toNinjutsuInfo(batch[i])]

\* upsert and emit; with pinyin there the emit needs a free run (the bound)
updateDatabase(batch) ==
    /\ started
    /\ DistinctIds(batch)
    /\ pinyin => HasIdle
    /\ table' = upsert(table, MapInfo(batch))
    /\ bf' = Trigger(bf)
    /\ UNCHANGED <<reader, pinyin, started>>

clearDatabase ==
    /\ started
    /\ table' = remove(table)
    /\ UNCHANGED <<reader, pinyin, started, bf>>

BackfillSelect(p) ==
    /\ bf[p].pc = "select"
    /\ bf' = [bf EXCEPT ![p] = [pc |-> "upsert",
                               data |-> selectEq(table, "namePinyin", << >>)]]
    /\ UNCHANGED <<reader, pinyin, started, table>>

\* faulty variant: the computed key is dropped, the rows are written back as read
FillPinyinDropped(data) == data

FillPinyin(data) ==
    [i \in 1..Len(data) |-> [data[i] EXCEPT !.namePinyin = getPinyin(data[i].nameNoPunctuation)]]

BackfillUpsert(p) ==
    /\ bf[p].pc = "upsert"
    /\ table' = upsert(table, FillPinyin(bf[p].data))
    /\ bf' = [bf EXCEPT ![p] = Idle]
    /\ UNCHANGED <<reader, pinyin, started>>

Next ==
    \/ Ready
    \/ \E batch \in Batches(StoreJutsus) : updateDatabase(batch)
    \/ clearDatabase
    \/ \E p \in Procs : BackfillSelect(p)
    \/ \E p \in Procs : BackfillUpsert(p)

Spec == Init /\ [][Next]_vars

\* ----------------------------------------------------------------- lookup
\* faulty variant: Homophone is kept when ctx.pinyin is missing
matchInfoLevelKept(level, py) == level

\* the level getMatchInfo settles on
matchInfoLevel(level, py) ==
    IF level = Homophone /\ ~py THEN Normal ELSE level

\* getMatchInfo(matchLevel).getKeyword(name)
getKeyword(level, py, name) ==
    CASE matchInfoLevel(level, py) = Strict    -> name
      [] matchInfoLevel(level, py) = Normal    -> removePunctuation(name)
      [] matchInfoLevel(level, py) = Homophone -> getPinyin(removePunctuation(name))

\* getMatchInfo(matchLevel).propertyName
propertyName(level, py) ==
    CASE matchInfoLevel(level, py) = Strict    -> "name"
      [] matchInfoLevel(level, py) = Normal    -> "nameNoPunctuation"
      [] matchInfoLevel(level, py) = Homophone -> "namePinyin"

First(rows) == IF rows = << >> THEN None ELSE rows[1]

\* part_000: the query of one level, res[0]
tryGetNinjutsuAtLevel(tab, name, level, py) ==
    First(selectEq(tab, propertyName(level, py), getKeyword(level, py, name)))

\* index.tsx: the same with the tables inlined, and no query at Homophone
\* without pinyin
tryGetNinjutsuAtLevelIndex(tab, name, level, py) ==
    IF level = Homophone /\ ~py THEN None
    ELSE LET target == CASE level = Strict    -> name
                         [] level = Normal    -> removePunctuation(name)
                         [] level = Homophone -> getPinyin(removePunctuation(name))
             property == CASE level = Strict    -> "name"
                           [] level = Normal    -> "nameNoPunctuation"
                           [] level = Homophone -> "namePinyin"
         IN  First(selectEq(tab, property, target))

Builds == { "part_000", "index" }

AtLevel(build, tab, name, level, py) ==
    IF build = "index" THEN tryGetNinjutsuAtLevelIndex(tab, name, level, py)
    ELSE tryGetNinjutsuAtLevel(tab, name, level, py)

\* faulty variant: a later level's hit replaces an earlier one
RECURSIVE tryGetNinjutsuLoosest(_, _, _, _, _, _)
tryGetNinjutsuLoosest(build, tab, name, level, maxLevel, py) ==
    IF level > maxLevel THEN None
    ELSE LET later == tryGetNinjutsuLoosest(build, tab, name, level + 1, maxLevel, py)
         IN  IF later # None THEN later ELSE AtLevel(build, tab, name, level, py)

\* the loop of tryGetNinjutsu from `level` on
RECURSIVE tryGetNinjutsuFrom(_, _, _, _, _, _)
tryGetNinjutsuFrom(build, tab, name, level, maxLevel, py) ==
    IF level > maxLevel THEN None
    ELSE LET ninjutsu == AtLevel(build, tab, name, level, py)
         IN  IF ninjutsu # None THEN ninjutsu
             ELSE tryGetNinjutsuFrom(build, tab, name, level + 1, maxLevel, py)

tryGetNinjutsu(build, name) ==
    /\ info' = [pc |-> "done", build |-> build, name |-> name,
                ninjutsu |-> tryGetNinjutsuFrom(build, table, name, Strict, matchLevel, pinyin)]
    /\ UNCHANGED <<pinyin, started, table, bf, matchLevel, found>>

\* ----------------------------------------------------------------- search
\* new RegExp(`.*${keyword}.*`) throws on an unclosed group
RegExpThrows(keyword) == \E i \in 1..Len(keyword) : keyword[i] = "("

\* new RegExp(`.*${keyword}.*`).test(s): '.' stands for any character
RegExpTest(keyword, s) ==
    \E i \in 0..(Len(s) - Len(keyword)) :
        \A j \in 1..Len(keyword) : keyword[j] = "." \/ keyword[j] = s[i + j]

\* faulty variant: the cap is not applied
TakeAll(rows, n) == rows

Take(rows, n) == IF Len(rows) <= n THEN rows ELSE SubSeq(rows, 1, n)

searchThrows(name, level, py) == RegExpThrows(getKeyword(level, py, name))

\* select where $.regex(row[propertyName], ...) .limit(limit)
searchNinjutsuAtLevel(tab, name, limit, level, py) ==
    Take(SelectSeq(tab, LAMBDA r :
            RegExpTest(getKeyword(level, py, name), r[propertyName(level, py)])),
         limit)

\* cur[ninjutsu.id] = ninjutsu for the rows in turn: the last one stays
Cur(rows) ==
    [id \in RowIds(rows) |->
        rows[CHOOSE i \in 1..Len(rows) :
                /\ rows[i].id = id
                /\ \A j \in 1..Len(rows) : rows[j].id = id => j <= i]]

\* the objects cur of the levels, each the prototype of the one before;
\* res itself has no property of its own
Chain(tab, name, limit, maxLevel, py) ==
    [l \in 1..(maxLevel + 1) |-> Cur(searchNinjutsuAtLevel(tab, name, limit, l - 1, py))]

\* faulty variant: the keys come largest first
RECURSIVE Descending(_)
Descending(S) ==
    IF S = {} THEN << >>
    ELSE LET m == CHOOSE x \in S : \A y \in S : x >= y
         IN  <<m>> \o Descending(S \ {m})

\* integer keys of one object, ascending
RECURSIVE Ascending(_)
Ascending(S) ==
    IF S = {} THEN << >>
    ELSE LET m == CHOOSE x \in S : \A y \in S : x <= y
         IN  <<m>> \o Ascending(S \ {m})

\* faulty variant: a key a stricter level holds is visited again
RECURSIVE ForInShadowed(_, _, _)
ForInShadowed(chain, l, seen) ==
    IF l > Len(chain) THEN << >>
    ELSE Ascending(DOMAIN chain[l]) \o ForInShadowed(chain, l + 1, seen)

\* for(let id in res): each object of the chain in turn, its keys
\* ascending, a key seen before skipped
RECURSIVE ForIn(_, _, _)
ForIn(chain, l, seen) ==
    IF l > Len(chain) THEN << >>
    ELSE Ascending(DOMAIN chain[l] \ seen)
            \o ForIn(chain, l + 1, seen \cup DOMAIN chain[l])

\* res[id]: the first object of the chain that has the key
Lookup(chain, id) ==
    chain[CHOOSE l \in 1..Len(chain) :
            /\ id \in DOMAIN chain[l]
            /\ \A k \in 1..Len(chain) : id \in DOMAIN chain[k] => l <= k][id]

searchNinjutsu(limit, keyword) ==
    /\ found' =
        IF \E l \in Strict..matchLevel : searchThrows(keyword, l, pinyin)
        THEN [pc |-> "failed", keyword |-> keyword, limit |-> limit]
        ELSE LET chain == Chain(table, keyword, limit, matchLevel, pinyin)
                 ids == ForIn(chain, 1, {})
                 entries == [i \in 1..Len(ids) |-> Lookup(chain, ids[i])]
             IN  [pc |-> "done", keyword |-> keyword, limit |-> limit,
                  chain |-> chain, entries |-> entries,
                  count |-> Len(ids), shown |-> Take(entries, limit)]
    /\ UNCHANGED <<pinyin, started, table, bf, matchLevel, info>>

\* the catalogs a started bot can hold: refreshed from the source, some
\* rows backfilled by a run with pinyin there
Refreshed(J) ==
    { upsert(<< >>, MapInfo(b)) :
        b \in { t \in UNION { [1..n -> Sources(J)] : n \in 0..MaxId } : DistinctIds(t) } }

FillIds(tab, F) ==
    [i \in 1..Len(tab) |->
        IF tab[i].id \in F
        THEN [tab[i] EXCEPT !.namePinyin = getPinyin(tab[i].nameNoPunctuation)]
        ELSE tab[i]]

Persisted(J) == { FillIds(tab, F) : tab \in Refreshed(J), F \in SUBSET Ids }

InitReader ==
    /\ pinyin \in BOOLEAN
    /\ started = TRUE
    /\ table \in Persisted(ReaderJutsus)
    /\ bf = [p \in Procs |-> Idle]
    /\ matchLevel \in MatchLevels
    /\ info = NoLookup
    /\ found = NoLookup

NextResolve == \E build \in Builds, name \in Queries : tryGetNinjutsu(build, name)

SpecResolve == InitReader /\ [][NextResolve]_vars

NextSearch == \E limit \in Limits, keyword \in Queries : searchNinjutsu(limit, keyword)

SpecSearch == InitReader /\ [][NextSearch]_vars

\* every listener call runs on: the database answers each statement
Fairness ==
    /\ WF_vars(Ready)
    /\ \A p \in Procs : WF_vars(BackfillSelect(p)) /\ WF_vars(BackfillUpsert(p))

SpecLive == Spec /\ Fairness

\* ----------------------------------------------------------- store claims
Consistent(r) == r.namePinyin = getPinyin(r.nameNoPunctuation)

\* what one backfill run does to a table nobody else writes
Backfill(tab) == upsert(tab, FillPinyin(selectEq(tab, "namePinyin", << >>)))

\* a run whose rows are still what a select would read now
Isolated(p) == bf[p].data = selectEq(table, "namePinyin", << >>)

\* C1 (as claimed): a backfill write keeps name, nameNoPunctuation and
\* description of every row, leaves a non-empty namePinyin alone and
\* creates no row.
C1_BackfillOnlyFillsEmpty ==
    [][\A p \in Procs : BackfillUpsert(p) =>
        /\ RowIds(table') = RowIds(table)
        /\ \A id \in RowIds(table) :
            LET old == RowOf(table, id)
                new == RowOf(table', id)
            IN  /\ new.name = old.name
                /\ new.nameNoPunctuation = old.nameNoPunctuation
                /\ new.description = old.description
                /\ old.namePinyin # << >> => new.namePinyin = old.namePinyin]_vars

\* C2 (as claimed): every row's namePinyin is empty or the key of its
\* current nameNoPunctuation.
C2_PinyinNeverStale ==
    \A i \in 1..Len(table) : table[i].namePinyin = << >> \/ Consistent(table[i])

\* C8 (as claimed): after a backfill run nobody interfered with, a second
\* run changes nothing and no row has an empty namePinyin.
C8_NoRowLeftEmpty ==
    [][\A p \in Procs : (BackfillUpsert(p) /\ Isolated(p)) =>
        /\ Backfill(table') = table'
        /\ \A i \in 1..Len(table') : table'[i].namePinyin # << >>]_vars

\* C8 (amended): after a backfill run nobody interfered with, a second run
\* changes nothing, and a row is left with an empty namePinyin only when
\* the key of its nameNoPunctuation is the empty string.
C8_BackfillIdempotent ==
    [][\A p \in Procs : (BackfillUpsert(p) /\ Isolated(p)) =>
        /\ Backfill(table') = table'
        /\ \A i \in 1..Len(table') :
             table'[i].namePinyin = << >> => getPinyin(table'[i].nameNoPunctuation) = << >>]_vars

\* a backfill has filled a row, and a row whose name is all punctuation
\* is still empty with no run in flight
C8_Witness ==
    /\ \A p \in Procs : bf[p].pc = "idle"
    /\ \E i \in 1..Len(table) : table[i].namePinyin # << >>
    /\ \E i \in 1..Len(table) :
         table[i].namePinyin = << >> /\ table[i].nameNoPunctuation = << >>
                                     /\ table[i].name # << >>

\* C9: with pinyin there, 'ready' and every refresh start a backfill run
\* without waiting for it (the rows a refresh inserts are still empty when
\* it returns), and every row with an empty namePinyin is in the end
\* removed or given the key of its nameNoPunctuation.
C9_BackfillFollowsRefresh ==
    /\ \A id \in Ids :
         (pinyin /\ id \in RowIds(table) /\ RowOf(table, id).namePinyin = << >>)
            ~> (id \notin RowIds(table) \/ Consistent(RowOf(table, id)))
    /\ [][\A batch \in Batches(StoreJutsus) : (updateDatabase(batch) /\ pinyin) =>
            /\ \E p \in Procs : bf[p].pc = "idle" /\ bf'[p].pc = "select"
            /\ \A id \in RowIds(table') \ RowIds(table) :
                 RowOf(table', id).namePinyin = << >>]_vars
    /\ [][(Ready /\ pinyin) => \E p \in Procs : bf'[p].pc = "select"]_vars

\* a refreshed row was backfilled and every run is over
C9_Witness ==
    /\ pinyin /\ started
    /\ \A p \in Procs : bf[p].pc = "idle"
    /\ \E i \in 1..Len(table) :
         table[i].id = 2 /\ table[i].namePinyin # << >> /\ Consistent(table[i])

\* ---------------------------------------------------------- lookup claims
\* the first row of the table that passes Test, or None
FirstRow(tab, Test(_)) ==
    IF \E i \in 1..Len(tab) : Test(tab[i])
    THEN tab[CHOOSE i \in 1..Len(tab) :
                Test(tab[i]) /\ \A j \in 1..Len(tab) : Test(tab[j]) => i <= j]
    ELSE None

StrictHit(q) == FirstRow(table, LAMBDA r : r.name = q)
NormalHit(q) == FirstRow(table, LAMBDA r : r.nameNoPunctuation = removePunctuation(q))
HomophoneHit(q) ==
    FirstRow(table, LAMBDA r : r.namePinyin = getPinyin(removePunctuation(q)))

\* C3: with pinyin there, a lookup returns the first row whose name is the
\* query; failing that (and matchLevel allowing) the first row whose
\* nameNoPunctuation is the stripped query; failing that the first row
\* whose namePinyin is the key of the stripped query; undefined only when
\* no level up to matchLevel has a row.
C3_StricterLevelWins ==
    (info.pc = "done" /\ pinyin) =>
        info.ninjutsu =
            IF StrictHit(info.name) # None THEN StrictHit(info.name)
            ELSE IF matchLevel >= Normal /\ NormalHit(info.name) # None
                 THEN NormalHit(info.name)
            ELSE IF matchLevel >= Homophone /\ HomophoneHit(info.name) # None
                 THEN HomophoneHit(info.name)
            ELSE None

\* a Strict hit was returned although Normal and Homophone start with
\* another row
C3_Witness ==
    /\ info.pc = "done" /\ pinyin /\ matchLevel = Homophone
    /\ info.ninjutsu # None /\ info.ninjutsu = StrictHit(info.name)
    /\ NormalHit(info.name) \notin {None, info.ninjutsu}
    /\ HomophoneHit(info.name) \notin {None, info.ninjutsu}

\* C4: without pinyin, a lookup at Homophone returns what a lookup at
\* Normal returns: the Strict hit, else the Normal hit, else undefined,
\* whatever the namePinyin fields hold.
C4_HomophoneIsNormalWithoutPinyin ==
    (info.pc = "done" /\ ~pinyin /\ matchLevel = Homophone) =>
        info.ninjutsu =
            IF StrictHit(info.name) # None THEN StrictHit(info.name)
            ELSE NormalHit(info.name)

\* nothing found without pinyin although a filled namePinyin equals the
\* query's key
C4_Witness ==
    /\ info.pc = "done" /\ ~pinyin /\ matchLevel = Homophone
    /\ info.ninjutsu = None
    /\ HomophoneHit(info.name) # None
    /\ HomophoneHit(info.name).namePinyin # << >>

\* ---------------------------------------------------------- search claims
Levels == Strict..matchLevel

\* the rows one level's query returns now
LevelRows(keyword, limit, l) == searchNinjutsuAtLevel(table, keyword, limit, l, pinyin)

\* the number of entries the loop of searchNinjutsu would count
CountFor(keyword, limit) == Len(ForIn(Chain(table, keyword, limit, matchLevel, pinyin), 1, {}))

\* the strictest level whose object holds the id
LevelOf(chain, id) ==
    CHOOSE l \in 1..Len(chain) :
        id \in DOMAIN chain[l] /\ \A k \in 1..(l - 1) : id \notin DOMAIN chain[k]

Min(a, b) == IF a <= b THEN a ELSE b

\* C5 (as claimed): the count of a search is the count of the same search
\* with any other limit.
C5_CountIgnoresLimit ==
    found.pc = "done" =>
        \A l \in Limits : CountFor(found.keyword, l) = found.count

\* C5 (amended): the count is the number of distinct ids among the levels'
\* results, each cut to limit rows; min(limit, count) entries are rendered;
\* and the count is that of every larger limit once no level has more than
\* limit matching rows.
C5_CountOfCappedLevels ==
    found.pc = "done" =>
        /\ found.count =
             Cardinality(UNION { RowIds(LevelRows(found.keyword, found.limit, l)) : l \in Levels })
        /\ Len(found.shown) = Min(found.limit, found.count)
        /\ (\A l \in Levels : Len(LevelRows(found.keyword, Len(table), l)) <= found.limit)
             => \A m \in Limits : m >= found.limit => CountFor(found.keyword, m) = found.count

\* a search cut to one row counts one entry where limit 2 counts two
C5_Witness ==
    /\ found.pc = "done" /\ found.limit = 1 /\ found.count = 1
    /\ Len(found.shown) = 1
    /\ CountFor(found.keyword, 2) = 2

\* C6: the entries of a search have distinct ids, and the entry of an id is
\* the row of the strictest level that returned it.
C6_EachIdOnceStrictestKept ==
    found.pc = "done" =>
        /\ \A i, j \in 1..Len(found.entries) :
             found.entries[i].id = found.entries[j].id => i = j
        /\ { found.entries[i].id : i \in 1..Len(found.entries) }
             = UNION { DOMAIN found.chain[l] : l \in 1..Len(found.chain) }
        /\ \A i \in 1..Len(found.entries) : \A l \in 1..Len(found.chain) :
             (/\ found.entries[i].id \in DOMAIN found.chain[l]
              /\ \A k \in 1..(l - 1) : found.entries[i].id \notin DOMAIN found.chain[k])
                => found.entries[i] = found.chain[l][found.entries[i].id]

\* without pinyin an id returned by Strict, Normal and the downgraded
\* Homophone query is one entry
C6_Witness ==
    /\ found.pc = "done" /\ ~pinyin /\ matchLevel = Homophone
    /\ found.count = 1
    /\ \A l \in 1..3 : found.entries[1].id \in DOMAIN found.chain[l]

\* the ids of rows, in order, leaving out those of `seen`
IdsNotIn(rows, seen) ==
    LET kept == SelectSeq(rows, LAMBDA r : r.id \notin seen)
    IN  [i \in 1..Len(kept) |-> kept[i].id]

RECURSIVE Discovery(_, _, _, _)
Discovery(keyword, limit, l, seen) ==
    IF l > matchLevel THEN << >>
    ELSE IdsNotIn(LevelRows(keyword, limit, l), seen)
            \o Discovery(keyword, limit, l + 1,
                         seen \cup RowIds(LevelRows(keyword, limit, l)))

\* C7 (as claimed): the entries come level by level and, within a level,
\* in the order the level's query returned them.
C7_DiscoveryOrder ==
    found.pc = "done" =>
        [i \in 1..Len(found.entries) |-> found.entries[i].id]
            = Discovery(found.keyword, found.limit, Strict, {})

\* C7 (amended): the entries come level by level and, within a level, by
\* ascending id, whatever order the query returned them in.
C7_LevelThenId ==
    found.pc = "done" =>
        \A i, j \in 1..Len(found.entries) : i < j =>
            LET a == found.entries[i].id
                b == found.entries[j].id
            IN  \/ LevelOf(found.chain, a) < LevelOf(found.chain, b)
                \/ LevelOf(found.chain, a) = LevelOf(found.chain, b) /\ a < b

\* two entries of one level come by id although the store returned them
\* the other way round, after an entry of a stricter level with a larger id
C7_Witness ==
    /\ found.pc = "done" /\ found.count = 2
    /\ LevelOf(found.chain, found.entries[1].id) = LevelOf(found.chain, found.entries[2].id)
    /\ IndexOfId(table, found.entries[1].id) > IndexOfId(table, found.entries[2].id)

\* s has keyword in it, character for character
Contains(s, keyword) ==
    \E i \in 0..(Len(s) - Len(keyword)) : \A j \in 1..Len(keyword) : keyword[j] = s[i + j]

\* C10 (as claimed): a search does not fail, and each level holds the
\* first limit rows whose field has the level's keyword in it literally.
C10_LiteralSubstring ==
    found.pc # "idle" =>
        /\ found.pc = "done"
        /\ \A l \in Levels :
             DOMAIN found.chain[l + 1] =
                RowIds(Take(SelectSeq(table, LAMBDA r :
                                Contains(r[propertyName(l, pinyin)],
                                         getKeyword(l, pinyin, found.keyword))),
                            found.limit))

====
